---- MODULE Spec2Model ----
(***************************************************************************)
(* EmbeddedConnection of composer-connector-embedded: the process-wide     *)
(* registry of business networks and chaincodes, the identity store of a   *)
(* connection, and the asynchronous connection methods that use them.      *)
(* Every asynchronous method is cut at the awaits that touch shared state: *)
(* the code between two awaits runs as one step.                           *)
(***************************************************************************)
EXTENDS Naturals, Sequences, FiniteSets, TLC

\* ------------------------------------------------------------------ bounds
\* createContainer() is called at most MaxContainers times, and
\* CertificateUtil.generate() at most MaxCerts times.
MaxContainers == 2
MaxCerts == 3

\* The concurrent callers of the connection methods.
Procs == {1, 2}

\* ------------------------------------------------------------------ values
Undefined == "undefined"
Null == "null"
NoNetwork == Undefined
AdminName == "admin"
AdminSecret == "adminpw"

\* Network identifiers and connection profile names the callers use. Names may
\* hold the character '@', which is also the separator of the registry key.
Networks == {"a", "a@b"}
Profiles == {"c", "b@c"}
\* The (network, profile) pairs that are started, undeployed and logged in to.
Targets == {<<"a", "c">>, <<"a", "b@c">>, <<"a@b", "c">>}
\* The connections logged in on: (network, profile), without a network too.
Connections == Targets \cup {<<NoNetwork, "c">>}
ChaincodeFns == {"q"}

\* The names and secrets callers present.
Names == {AdminName, "bob", "carol"}
NewNames == {"bob"}
\* The options createIdentity is called with: the set of the option keys that
\* are true, or NoOptions when the argument is not given.
NoOptions == {Undefined}
IdentityOptions == {NoOptions, {}, {"issuer"}}
WrongSecret == "blahblah"
StartTransactions == {"tx"}

\* Results of a call: "ok", or the error it was rejected with.
Ok == "ok"
NetworkNotFound == "No chaincode ID found for business network"
AuthenticationFailed == "The secret specified for the identity does not match the stored secret"
PermissionDenied(currentName, identityName) ==
    "The identity " \o currentName \o
    " does not have permission to create a new identity " \o identityName
TypeError == "TypeError: Cannot read property 'engine' of undefined"
IdentityNotFound == "IdentityNotFound"
AlreadyExistsInCollection == "Failed to add object as the object already exists"
\* The errors an engine entry point may be rejected with (its message).
EngineAlreadyExists == "cannot add network as the object already exists"
EngineSomeError == "some error"
InitOutcomes == {Ok, EngineAlreadyExists, EngineSomeError}
DispatchOutcomes == {Ok, EngineSomeError}
\* The errors the specification names that the code has no throw for.
NetworkAlreadyExists(businessNetworkIdentifier) ==
    "business network with name " \o businessNetworkIdentifier \o " already exists"
ChaincodeNotFound == "ChaincodeNotFound"

\* container.getUUID() of the n-th container that createContainer() returns.
ContainerUUID(n) == "u" \o ToString(n)
\* The handles of the n-th container and of the engine built on it.
Container(n) == "container" \o ToString(n)
Engine(n) == "engine" \o ToString(n)
\* certificateObj.getIdentifier() of the n-th generated certificate.
CertIdentifier(n) == "id" \o ToString(n)
\* uuid.v4().substring(0, 8) at the n-th generated certificate.
NewSecret(n) == "s" \o ToString(n)

ImportedSecret == "suchsecret"
Secrets == {WrongSecret} \cup {NewSecret(n) : n \in 1..MaxCerts}
\* The keys getIdentity and testIdentity are called with: names, and the
\* identifiers of generated certificates.
IdentityKeys == Names \cup {CertIdentifier(n) : n \in 1..MaxCerts}

\* `${businessNetworkIdentifier}@${connectionProfile}`
NetworkKey(businessNetworkIdentifier, connectionProfile) ==
    businessNetworkIdentifier \o "@" \o connectionProfile

\* JavaScript truthiness of a string-or-undefined value.
Truthy(v) == v \notin {Undefined, Null, ""}

\* ------------------------------------------------------------------ maps
EmptyMap == [k \in {} |-> Undefined]
Put(f, k, v) == [x \in (DOMAIN f) \cup {k} |-> IF x = k THEN v ELSE f[x]]
Delete(f, k) == [x \in (DOMAIN f) \ {k} |-> f[x]]
Lookup(f, k) == IF k \in DOMAIN f THEN f[k] ELSE Undefined

\* ------------------------------------------------------------------ records
NoIdentity ==
    [identifier |-> "", name |-> "", secret |-> "", imported |-> FALSE, options |-> {}]

NoChaincode == [uuid |-> Undefined, container |-> Undefined, engine |-> Undefined]

NoContext == [open |-> FALSE, identity |-> NoIdentity, chaincodeID |-> Null]

\* A security context built without the identity it was given.
SecurityContextWithoutIdentity(identity, chaincodeID) ==
    [open |-> TRUE, identity |-> NoIdentity, chaincodeID |-> chaincodeID]

\* new EmbeddedSecurityContext(connection, identity), then setChaincodeID
SecurityContext(identity, chaincodeID) ==
    [open |-> TRUE, identity |-> identity, chaincodeID |-> chaincodeID]

NoEngineContext == [engine |-> Undefined, identity |-> NoIdentity]

\* The locals of one call; in context, fn and args what it hands to the engine
\* entry point, and in calls the number of calls it has made of one. Fields a
\* method does not use keep these values.
IdleFrame ==
    [op |-> "", profile |-> "", network |-> NoNetwork, name |-> "",
     identity |-> NoIdentity, uuid |-> Undefined, engine |-> Undefined,
     context |-> NoEngineContext, fn |-> "", args |-> <<>>, calls |-> 0,
     userID |-> "", userSecret |-> "", result |-> ""]

VARIABLES
    businessNetworks,   \* "network@profile" -> chaincode UUID
    chaincodes,         \* chaincode UUID -> {uuid, container, engine}
    identities,         \* the 'identities' collection: key -> identity record
    containers,         \* number of containers createContainer() has made
    certs,              \* number of certificates CertificateUtil.generate() has made
    pc,                 \* per caller: where its call stands
    frame,              \* per caller: the locals of its call, kept until it returns
    session             \* per caller: the security context its last login returned

vars == <<businessNetworks, chaincodes, identities, containers, certs, pc, frame, session>>
registry == <<businessNetworks, chaincodes>>

\* ------------------------------------------------------------------ engine calls
\* A context that carries the identity of whichever session is open first.
EmbeddedContextOfSharedSession(engine, identity) ==
    [engine |-> engine,
     identity |-> IF \E q \in Procs : session[q].open
                  THEN session[CHOOSE q \in Procs : session[q].open].identity
                  ELSE identity]

\* new EmbeddedContext(engine, identity, connection)
EmbeddedContext(engine, identity) == [engine |-> engine, identity |-> identity]

\* The init call of start without the start transaction.
InitCallWithoutPayload(startTransaction) == [fn |-> "init", args |-> <<>>]

\* engine.init(context, 'init', [startTransaction]): function name and arguments
InitCall(startTransaction) == [fn |-> "init", args |-> <<startTransaction>>]

\* ------------------------------------------------------------------ registry (static)
\* getBusinessNetwork keyed by the network identifier alone.
GetBusinessNetworkIgnoringProfile(businessNetworkIdentifier, connectionProfile) ==
    Lookup(businessNetworks, businessNetworkIdentifier)

\* static getBusinessNetwork
GetBusinessNetwork(businessNetworkIdentifier, connectionProfile) ==
    Lookup(businessNetworks, NetworkKey(businessNetworkIdentifier, connectionProfile))

\* getChaincode answering with any registered instance.
GetChaincodeAny(chaincodeUUID) ==
    IF DOMAIN chaincodes = {}
    THEN NoChaincode
    ELSE chaincodes[CHOOSE u \in DOMAIN chaincodes : TRUE]

\* static getChaincode (NoChaincode stands for undefined)
GetChaincode(chaincodeUUID) ==
    IF chaincodeUUID \in DOMAIN chaincodes THEN chaincodes[chaincodeUUID] ELSE NoChaincode

\* static addBusinessNetwork: the binding table after the call
AddBusinessNetwork(table, businessNetworkIdentifier, connectionProfile, chaincodeUUID) ==
    Put(table, NetworkKey(businessNetworkIdentifier, connectionProfile), chaincodeUUID)

\* static addChaincode: the instance table after the call
AddChaincode(table, chaincodeUUID, container, engine) ==
    Put(table, chaincodeUUID,
        [uuid |-> chaincodeUUID, container |-> container, engine |-> engine])

\* deleteBusinessNetwork that deletes the chaincode and leaves the binding.
DeleteBusinessNetworkKeepingBinding(businessNetworkIdentifier, connectionProfile) ==
    LET key == NetworkKey(businessNetworkIdentifier, connectionProfile)
        chaincodeUUID == Lookup(businessNetworks, key)
    IN  IF Truthy(chaincodeUUID)
        THEN <<businessNetworks, Delete(chaincodes, chaincodeUUID)>>
        ELSE <<businessNetworks, chaincodes>>

\* deleteBusinessNetwork without the delete of the chaincode.
DeleteBusinessNetworkNoCascade(businessNetworkIdentifier, connectionProfile) ==
    <<Delete(businessNetworks, NetworkKey(businessNetworkIdentifier, connectionProfile)),
      chaincodes>>

\* deleteBusinessNetwork that drops every chaincode no other binding refers to.
DeleteBusinessNetworkSweep(businessNetworkIdentifier, connectionProfile) ==
    LET bindings == Delete(businessNetworks,
                           NetworkKey(businessNetworkIdentifier, connectionProfile))
        kept == {u \in DOMAIN chaincodes : \E k \in DOMAIN bindings : bindings[k] = u}
    IN  <<bindings, [u \in kept |-> chaincodes[u]]>>

\* static deleteBusinessNetwork: both tables after the call
DeleteBusinessNetwork(businessNetworkIdentifier, connectionProfile) ==
    LET key == NetworkKey(businessNetworkIdentifier, connectionProfile)
        chaincodeUUID == Lookup(businessNetworks, key)
    IN  IF Truthy(chaincodeUUID)
        THEN <<Delete(businessNetworks, key), Delete(chaincodes, chaincodeUUID)>>
        ELSE <<businessNetworks, chaincodes>>

\* reset that clears the business networks only.
ResetBusinessNetworksOnly == <<EmptyMap, chaincodes>>

\* static reset: both tables after the call
ResetTables == <<EmptyMap, EmptyMap>>

\* ------------------------------------------------------------------ identity collection
\* identities.exists(key)
CollectionExists(key) == key \in DOMAIN identities
\* identities.get(key) is rejected when the key is absent
CollectionGetFails(key) == key \notin DOMAIN identities
\* identities.add(key, ...) is rejected when the key is present
CollectionAddFails(key) == key \in DOMAIN identities

\* An identity that was imported into the store before the connection is used.
ImportedIdentity ==
    [identifier |-> "idc", name |-> "carol", secret |-> ImportedSecret,
     imported |-> TRUE, options |-> {}]

\* The store of a connection that was never logged in on: no admin yet, one
\* imported identity.
FreshStore ==
    Put(Put(EmptyMap, ImportedIdentity.name, ImportedIdentity),
        ImportedIdentity.identifier, ImportedIdentity)

\* The identity _createAdminIdentity builds from the n-th certificate.
AdminIdentity(n) ==
    [identifier |-> CertIdentifier(n), name |-> AdminName, secret |-> AdminSecret,
     imported |-> FALSE, options |-> {"issuer"}]

\* options || {}
OptionsOrDefault(options) == IF options = NoOptions THEN {} ELSE options

\* createIdentity building an identity that is marked imported.
NewIdentityImported(n, identityName, options) ==
    [identifier |-> CertIdentifier(n), name |-> identityName, secret |-> NewSecret(n),
     imported |-> TRUE, options |-> OptionsOrDefault(options)]

\* The identity createIdentity builds from the n-th certificate.
NewIdentity(n, identityName, options) ==
    [identifier |-> CertIdentifier(n), name |-> identityName, secret |-> NewSecret(n),
     imported |-> FALSE, options |-> OptionsOrDefault(options)]

\* testIdentity without the comparison of the secret.
TestIdentityNoComparison(identity, identityName, identitySecret) == TRUE

\* testIdentity that compares the secret of imported identities too.
TestIdentityIgnoringImported(identity, identityName, identitySecret) ==
    identityName = AdminName \/ identity.secret = identitySecret

\* testIdentity, once getIdentity has returned: TRUE when it returns the identity
TestIdentityPasses(identity, identityName, identitySecret) ==
    IF identity.imported THEN TRUE
    ELSE IF identityName = AdminName THEN TRUE
    ELSE IF identity.secret # identitySecret THEN FALSE
    ELSE TRUE

\* The store once the first getIdentity('admin') has created the admin.
BootstrappedStore ==
    Put(Put(FreshStore, AdminName, AdminIdentity(1)), CertIdentifier(1), AdminIdentity(1))

\* ------------------------------------------------------------------ initial state
\* An empty registry and a fresh identity store.
Init ==
    /\ businessNetworks = EmptyMap
    /\ chaincodes = EmptyMap
    /\ identities = FreshStore
    /\ containers = 0
    /\ certs = 0
    /\ pc = [p \in Procs |-> "idle"]
    /\ frame = [p \in Procs |-> IdleFrame]
    /\ session = [p \in Procs |-> NoContext]

\* An empty registry and an identity store with the admin in it.
InitBootstrapped ==
    /\ businessNetworks = EmptyMap
    /\ chaincodes = EmptyMap
    /\ identities = BootstrappedStore
    /\ containers = 0
    /\ certs = 1
    /\ pc = [p \in Procs |-> "idle"]
    /\ frame = [p \in Procs |-> IdleFrame]
    /\ session = [p \in Procs |-> NoContext]

\* What a finished call leaves to its caller: the method, its result, the value
\* it resolved with, and for start, undeploy and the dispatch methods the
\* chaincode UUID and the engine they worked on.
ResultFrame(f, result) ==
    [IdleFrame EXCEPT
        !.op = f.op,
        !.result = result,
        !.identity = IF f.op \in {"getIdentity", "testIdentity"} /\ result = Ok
                     THEN f.identity ELSE NoIdentity,
        !.userID = f.userID,
        !.userSecret = f.userSecret,
        !.uuid = IF f.op \in {"start", "undeploy", "queryChainCode", "invokeChainCode"}
                 THEN f.uuid ELSE Undefined,
        !.engine = IF f.op \in {"start", "queryChainCode", "invokeChainCode"}
                   THEN f.engine ELSE Undefined,
        !.calls = f.calls]

\* A call of p ends, resolved (Ok) or rejected with an error.
Finish(p, f, result) ==
    /\ pc' = [pc EXCEPT ![p] = "done"]
    /\ frame' = [frame EXCEPT ![p] = ResultFrame(f, result)]

\* A call of p goes on to its next await.
Goto(p, f, label) ==
    /\ pc' = [pc EXCEPT ![p] = label]
    /\ frame' = [frame EXCEPT ![p] = f]

\* The caller takes the result of its finished call.
Return(p) ==
    /\ pc[p] = "done"
    /\ pc' = [pc EXCEPT ![p] = "idle"]
    /\ frame' = [frame EXCEPT ![p] = IdleFrame]
    /\ UNCHANGED <<businessNetworks, chaincodes, identities, containers, certs, session>>

\* ------------------------------------------------------------------ getIdentity, testIdentity, login
\* What follows getIdentity's return in the method f.op that awaited it:
\* getIdentity itself returns the identity, testIdentity and login compare the
\* secret, and login goes on to resolve the business network.
AfterGetIdentity(p, f, identityName, identitySecret, identity) ==
    LET g == [f EXCEPT !.identity = identity]
    IN  IF f.op = "getIdentity"
        THEN Finish(p, g, Ok)
        ELSE IF ~TestIdentityPasses(identity, identityName, identitySecret)
        THEN Finish(p, f, AuthenticationFailed)
        ELSE IF f.op = "testIdentity"
        THEN Finish(p, g, Ok)
        ELSE Goto(p, g, "login_bind")

\* getIdentity that creates the admin identity on a miss of any name.
GetIdentityCreatesOnAnyMiss(p, f, identityName, identitySecret) ==
    IF ~CollectionGetFails(identityName)
    THEN /\ AfterGetIdentity(p, f, identityName, identitySecret, identities[identityName])
         /\ UNCHANGED certs
    ELSE /\ certs < MaxCerts
         /\ certs' = certs + 1
         /\ Goto(p, [f EXCEPT !.identity = AdminIdentity(certs + 1)], "admin_add")

\* getIdentity up to the answer of identities.get: the stored identity, or for
\* 'admin' the start of _createAdminIdentity, or the lookup error rethrown.
GetIdentity(p, f, identityName, identitySecret) ==
    IF ~CollectionGetFails(identityName)
    THEN /\ AfterGetIdentity(p, f, identityName, identitySecret, identities[identityName])
         /\ UNCHANGED certs
    ELSE IF identityName = AdminName
    THEN /\ certs < MaxCerts
         /\ certs' = certs + 1
         /\ Goto(p, [f EXCEPT !.identity = AdminIdentity(certs + 1)], "admin_add")
    ELSE /\ Finish(p, f, IdentityNotFound)
         /\ UNCHANGED certs

\* p calls getIdentity(identityName)
CallGetIdentity(p, identityName) ==
    /\ pc[p] = "idle"
    /\ GetIdentity(p, [IdleFrame EXCEPT !.op = "getIdentity"], identityName, "")
    /\ UNCHANGED <<businessNetworks, chaincodes, identities, containers, session>>

\* p calls testIdentity(identityName, identitySecret)
CallTestIdentity(p, identityName, identitySecret) ==
    /\ pc[p] = "idle"
    /\ GetIdentity(p, [IdleFrame EXCEPT !.op = "testIdentity"], identityName, identitySecret)
    /\ UNCHANGED <<businessNetworks, chaincodes, identities, containers, session>>

\* login that resolves the business network before it tests the identity.
CallLoginResolvingFirst(p, connectionProfile, businessNetworkIdentifier, enrollmentID, enrollmentSecret) ==
    LET f == [IdleFrame EXCEPT !.op = "login", !.profile = connectionProfile,
                               !.network = businessNetworkIdentifier]
    IN  /\ pc[p] = "idle"
        /\ IF /\ Truthy(businessNetworkIdentifier)
              /\ ~Truthy(GetBusinessNetwork(businessNetworkIdentifier, connectionProfile))
           THEN /\ Finish(p, f, NetworkNotFound)
                /\ UNCHANGED certs
           ELSE GetIdentity(p, f, enrollmentID, enrollmentSecret)
        /\ UNCHANGED <<businessNetworks, chaincodes, identities, containers, session>>

\* p calls login(enrollmentID, enrollmentSecret) on a connection made for
\* connectionProfile and businessNetworkIdentifier (NoNetwork when none was given)
CallLogin(p, connectionProfile, businessNetworkIdentifier, enrollmentID, enrollmentSecret) ==
    /\ pc[p] = "idle"
    /\ GetIdentity(p, [IdleFrame EXCEPT !.op = "login", !.profile = connectionProfile,
                                        !.network = businessNetworkIdentifier],
                   enrollmentID, enrollmentSecret)
    /\ UNCHANGED <<businessNetworks, chaincodes, identities, containers, session>>

\* _createAdminIdentity: await identities.add('admin', identity)
AdminAddName(p) ==
    /\ pc[p] = "admin_add"
    /\ IF CollectionAddFails(AdminName)
       THEN /\ Finish(p, frame[p], AlreadyExistsInCollection)
            /\ UNCHANGED identities
       ELSE /\ identities' = Put(identities, AdminName, frame[p].identity)
            /\ Goto(p, frame[p], "admin_add_identifier")
    /\ UNCHANGED <<businessNetworks, chaincodes, containers, certs, session>>

\* _createAdminIdentity that returns without the add under the identifier.
AdminAddIdentifierSkipped(p) ==
    /\ pc[p] = "admin_add_identifier"
    /\ AfterGetIdentity(p, frame[p], AdminName, "", frame[p].identity)
    /\ UNCHANGED <<businessNetworks, chaincodes, identities, containers, certs, session>>

\* _createAdminIdentity: await identities.add(identifier, identity), and the return
AdminAddIdentifier(p) ==
    /\ pc[p] = "admin_add_identifier"
    /\ IF CollectionAddFails(frame[p].identity.identifier)
       THEN /\ Finish(p, frame[p], AlreadyExistsInCollection)
            /\ UNCHANGED identities
       ELSE /\ identities' = Put(identities, frame[p].identity.identifier, frame[p].identity)
            /\ AfterGetIdentity(p, frame[p], AdminName, "", frame[p].identity)
    /\ UNCHANGED <<businessNetworks, chaincodes, containers, certs, session>>

\* login after testIdentity has returned the identity
LoginBind(p) ==
    LET f == frame[p]
        chaincodeUUID == GetBusinessNetwork(f.network, f.profile)
    IN  /\ pc[p] = "login_bind"
        /\ IF ~Truthy(f.network)
           THEN /\ session' = [session EXCEPT ![p] = SecurityContext(f.identity, Null)]
                /\ Finish(p, f, Ok)
           ELSE IF ~Truthy(chaincodeUUID)
           THEN /\ Finish(p, f, NetworkNotFound)
                /\ UNCHANGED session
           ELSE /\ session' = [session EXCEPT ![p] = SecurityContext(f.identity, chaincodeUUID)]
                /\ Finish(p, [f EXCEPT !.uuid = chaincodeUUID], Ok)
        /\ UNCHANGED <<businessNetworks, chaincodes, identities, containers, certs>>

\* ------------------------------------------------------------------ createIdentity
\* createIdentity that waits while another call is creating the same name.
CallCreateIdentityLocked(p, identityName, options) ==
    LET currentIdentity == session[p].identity
        f == [IdleFrame EXCEPT !.op = "createIdentity", !.name = identityName,
                               !.identity = currentIdentity]
    IN  /\ pc[p] = "idle"
        /\ session[p].open
        /\ \A q \in Procs \ {p} :
              ~(pc[q] \in {"create_add", "create_add_identifier"} /\ frame[q].name = identityName)
        /\ IF "issuer" \notin currentIdentity.options
           THEN /\ Finish(p, f, PermissionDenied(currentIdentity.name, identityName))
                /\ UNCHANGED certs
           ELSE IF CollectionExists(identityName)
           THEN /\ Goto(p, f, "create_get")
                /\ UNCHANGED certs
           ELSE /\ certs < MaxCerts
                /\ certs' = certs + 1
                /\ Goto(p, [f EXCEPT !.identity = NewIdentity(certs + 1, identityName, options)],
                        "create_add")
        /\ UNCHANGED <<businessNetworks, chaincodes, identities, containers, session>>

\* createIdentity that looks the name up before it checks the issuer option.
CallCreateIdentityExistsFirst(p, identityName, options) ==
    LET currentIdentity == session[p].identity
        f == [IdleFrame EXCEPT !.op = "createIdentity", !.name = identityName,
                               !.identity = currentIdentity]
    IN  /\ pc[p] = "idle"
        /\ session[p].open
        /\ IF CollectionExists(identityName)
           THEN /\ Goto(p, f, "create_get")
                /\ UNCHANGED certs
           ELSE IF "issuer" \notin currentIdentity.options
           THEN /\ Finish(p, f, PermissionDenied(currentIdentity.name, identityName))
                /\ UNCHANGED certs
           ELSE /\ certs < MaxCerts
                /\ certs' = certs + 1
                /\ Goto(p, [f EXCEPT !.identity = NewIdentity(certs + 1, identityName, options)],
                        "create_add")
        /\ UNCHANGED <<businessNetworks, chaincodes, identities, containers, session>>

\* createIdentity without the check of identities.exists.
CallCreateIdentityWithoutExists(p, identityName, options) ==
    LET currentIdentity == session[p].identity
        f == [IdleFrame EXCEPT !.op = "createIdentity", !.name = identityName,
                               !.identity = currentIdentity]
    IN  /\ pc[p] = "idle"
        /\ session[p].open
        /\ IF "issuer" \notin currentIdentity.options
           THEN /\ Finish(p, f, PermissionDenied(currentIdentity.name, identityName))
                /\ UNCHANGED certs
           ELSE /\ certs < MaxCerts
                /\ certs' = certs + 1
                /\ Goto(p, [f EXCEPT !.identity = NewIdentity(certs + 1, identityName, options)],
                        "create_add")
        /\ UNCHANGED <<businessNetworks, chaincodes, identities, containers, session>>

\* createIdentity that checks the issuer option of the request in place of the
\* issuer option of the calling identity.
CallCreateIdentityCheckingRequest(p, identityName, options) ==
    LET currentIdentity == session[p].identity
        f == [IdleFrame EXCEPT !.op = "createIdentity", !.name = identityName,
                               !.identity = currentIdentity]
    IN  /\ pc[p] = "idle"
        /\ session[p].open
        /\ IF "issuer" \notin OptionsOrDefault(options)
           THEN /\ Finish(p, f, PermissionDenied(currentIdentity.name, identityName))
                /\ UNCHANGED certs
           ELSE IF CollectionExists(identityName)
           THEN /\ Goto(p, f, "create_get")
                /\ UNCHANGED certs
           ELSE /\ certs < MaxCerts
                /\ certs' = certs + 1
                /\ Goto(p, [f EXCEPT !.identity = NewIdentity(certs + 1, identityName, options)],
                        "create_add")
        /\ UNCHANGED <<businessNetworks, chaincodes, identities, containers, session>>

\* p calls createIdentity(securityContext, identityName, options), up to the
\* answer of identities.exists
CallCreateIdentity(p, identityName, options) ==
    LET currentIdentity == session[p].identity
        f == [IdleFrame EXCEPT !.op = "createIdentity", !.name = identityName,
                               !.identity = currentIdentity]
    IN  /\ pc[p] = "idle"
        /\ session[p].open
        /\ IF "issuer" \notin currentIdentity.options
           THEN /\ Finish(p, f, PermissionDenied(currentIdentity.name, identityName))
                /\ UNCHANGED certs
           ELSE IF CollectionExists(identityName)
           THEN /\ Goto(p, f, "create_get")
                /\ UNCHANGED certs
           ELSE /\ certs < MaxCerts
                /\ certs' = certs + 1
                /\ Goto(p, [f EXCEPT !.identity = NewIdentity(certs + 1, identityName, options)],
                        "create_add")
        /\ UNCHANGED <<businessNetworks, chaincodes, identities, containers, session>>

\* createIdentity: the identity exists, await identities.get(identityName)
CreateGet(p) ==
    LET f == frame[p]
    IN  /\ pc[p] = "create_get"
        /\ IF CollectionGetFails(f.name)
           THEN Finish(p, f, IdentityNotFound)
           ELSE Finish(p, [f EXCEPT !.userID = identities[f.name].name,
                                    !.userSecret = identities[f.name].secret], Ok)
        /\ UNCHANGED <<businessNetworks, chaincodes, identities, containers, certs, session>>

\* createIdentity: await identities.add(identityName, identity)
CreateAddName(p) ==
    /\ pc[p] = "create_add"
    /\ IF CollectionAddFails(frame[p].name)
       THEN /\ Finish(p, frame[p], AlreadyExistsInCollection)
            /\ UNCHANGED identities
       ELSE /\ identities' = Put(identities, frame[p].name, frame[p].identity)
            /\ Goto(p, frame[p], "create_add_identifier")
    /\ UNCHANGED <<businessNetworks, chaincodes, containers, certs, session>>

\* createIdentity that returns without the add under the identifier.
CreateAddIdentifierSkipped(p) ==
    LET f == frame[p]
    IN  /\ pc[p] = "create_add_identifier"
        /\ Finish(p, [f EXCEPT !.userID = f.identity.name,
                               !.userSecret = f.identity.secret], Ok)
        /\ UNCHANGED <<businessNetworks, chaincodes, identities, containers, certs, session>>

\* createIdentity: await identities.add(identifier, identity), and the return
CreateAddIdentifier(p) ==
    LET f == frame[p]
    IN  /\ pc[p] = "create_add_identifier"
        /\ IF CollectionAddFails(f.identity.identifier)
           THEN /\ Finish(p, f, AlreadyExistsInCollection)
                /\ UNCHANGED identities
           ELSE /\ identities' = Put(identities, f.identity.identifier, f.identity)
                /\ Finish(p, [f EXCEPT !.userID = f.identity.name,
                                       !.userSecret = f.identity.secret], Ok)
        /\ UNCHANGED <<businessNetworks, chaincodes, containers, certs, session>>

\* ------------------------------------------------------------------ install, start, undeploy, reset
\* install that creates a container and registers an instance for it.
InstallRegisteringChaincode(p, businessNetworkIdentifier) ==
    /\ pc[p] = "idle"
    /\ containers < MaxContainers
    /\ containers' = containers + 1
    /\ chaincodes' = AddChaincode(chaincodes, ContainerUUID(containers + 1),
                                  Container(containers + 1), Engine(containers + 1))
    /\ Finish(p, [IdleFrame EXCEPT !.op = "install"], Ok)
    /\ UNCHANGED <<businessNetworks, identities, certs, session>>

\* p calls install(securityContext, businessNetworkIdentifier, installOptions)
Install(p, businessNetworkIdentifier) ==
    /\ pc[p] = "idle"
    /\ Finish(p, [IdleFrame EXCEPT !.op = "install"], Ok)
    /\ UNCHANGED <<businessNetworks, chaincodes, identities, containers, certs, session>>

\* p calls start(securityContext, businessNetworkIdentifier, startTransaction, startOptions)
\* on a connection made for connectionProfile, up to the call of engine.init
Start(p, connectionProfile, businessNetworkIdentifier, startTransaction) ==
    LET n == containers + 1
        container == Container(n)
        identity == session[p].identity
        chaincodeUUID == ContainerUUID(n)
        engine == Engine(n)
    IN  /\ pc[p] = "idle"
        /\ session[p].open
        /\ containers < MaxContainers
        /\ containers' = n
        /\ businessNetworks' = AddBusinessNetwork(businessNetworks, businessNetworkIdentifier,
                                                  connectionProfile, chaincodeUUID)
        /\ chaincodes' = AddChaincode(chaincodes, chaincodeUUID, container, engine)
        /\ Goto(p, [IdleFrame EXCEPT !.op = "start", !.profile = connectionProfile,
                                     !.network = businessNetworkIdentifier,
                                     !.identity = identity, !.uuid = chaincodeUUID,
                                     !.engine = engine,
                                     !.context = EmbeddedContext(engine, identity),
                                     !.fn = InitCall(startTransaction).fn,
                                     !.args = InitCall(startTransaction).args,
                                     !.calls = 1],
                "start_init")
        /\ UNCHANGED <<identities, certs, session>>

\* start that removes the binding and the instance when engine.init is rejected.
StartReturnRollingBack(p, outcome) ==
    LET after == DeleteBusinessNetwork(frame[p].network, frame[p].profile)
    IN  /\ pc[p] = "start_init"
        /\ businessNetworks' = IF outcome = Ok THEN businessNetworks ELSE after[1]
        /\ chaincodes' = IF outcome = Ok THEN chaincodes ELSE after[2]
        /\ Finish(p, frame[p], outcome)
        /\ UNCHANGED <<identities, containers, certs, session>>

\* start that calls engine.init a second time when the first call is rejected.
StartReturnRetrying(p, outcome) ==
    /\ pc[p] = "start_init"
    /\ IF outcome # Ok /\ frame[p].calls < 2
       THEN Goto(p, [frame[p] EXCEPT !.calls = 2], "start_init")
       ELSE Finish(p, frame[p], outcome)
    /\ UNCHANGED <<businessNetworks, chaincodes, identities, containers, certs, session>>

\* start: engine.init has answered
StartReturn(p, outcome) ==
    /\ pc[p] = "start_init"
    /\ Finish(p, frame[p], outcome)
    /\ UNCHANGED <<businessNetworks, chaincodes, identities, containers, certs, session>>

\* p calls undeploy(securityContext, businessNetworkIdentifier) on a connection
\* made for connectionProfile
Undeploy(p, connectionProfile, businessNetworkIdentifier) ==
    LET after == DeleteBusinessNetwork(businessNetworkIdentifier, connectionProfile)
    IN  /\ pc[p] = "idle"
        /\ businessNetworks' = after[1]
        /\ chaincodes' = after[2]
        /\ Finish(p, [IdleFrame EXCEPT !.op = "undeploy", !.profile = connectionProfile,
                                       !.network = businessNetworkIdentifier,
                                       !.uuid = GetBusinessNetwork(businessNetworkIdentifier,
                                                                   connectionProfile)], Ok)
        /\ UNCHANGED <<identities, containers, certs, session>>

\* reset that empties the identity store too.
ResetClearingIdentities(p) ==
    /\ pc[p] = "idle"
    /\ businessNetworks' = ResetTables[1]
    /\ chaincodes' = ResetTables[2]
    /\ identities' = EmptyMap
    /\ Finish(p, [IdleFrame EXCEPT !.op = "reset"], Ok)
    /\ UNCHANGED <<containers, certs, session>>

\* p calls EmbeddedConnection.reset()
Reset(p) ==
    /\ pc[p] = "idle"
    /\ businessNetworks' = ResetTables[1]
    /\ chaincodes' = ResetTables[2]
    /\ Finish(p, [IdleFrame EXCEPT !.op = "reset"], Ok)
    /\ UNCHANGED <<identities, containers, certs, session>>

\* ------------------------------------------------------------------ queryChainCode, invokeChainCode
\* queryChainCode and invokeChainCode up to the call of the engine: reading
\* chaincode.engine of an instance that is not registered throws a TypeError
Dispatch(p, op, functionName) ==
    LET identity == session[p].identity
        chaincodeUUID == session[p].chaincodeID
        chaincode == GetChaincode(chaincodeUUID)
        f == [IdleFrame EXCEPT !.op = op, !.identity = identity, !.uuid = chaincodeUUID,
                               !.fn = functionName]
    IN  /\ pc[p] = "idle"
        /\ session[p].open
        /\ IF chaincode = NoChaincode
           THEN Finish(p, f, TypeError)
           ELSE Goto(p, [f EXCEPT !.engine = chaincode.engine,
                                  !.context = EmbeddedContext(chaincode.engine, identity),
                                  !.calls = 1], "engine_call")
        /\ UNCHANGED <<businessNetworks, chaincodes, identities, containers, certs, session>>

\* p calls queryChainCode(securityContext, functionName, args)
QueryChainCode(p, functionName) == Dispatch(p, "queryChainCode", functionName)

\* p calls invokeChainCode(securityContext, functionName, args)
InvokeChainCode(p, functionName) == Dispatch(p, "invokeChainCode", functionName)

\* engine.query or engine.invoke has answered
DispatchReturn(p, outcome) ==
    /\ pc[p] = "engine_call"
    /\ Finish(p, frame[p], outcome)
    /\ UNCHANGED <<businessNetworks, chaincodes, identities, containers, certs, session>>

\* ------------------------------------------------------------------ direct use of the static registry
\* The chaincode UUIDs direct callers register: one of their own choosing.
HarnessUUIDs == {"h1"}

\* EmbeddedConnection.addBusinessNetwork called directly
DirectAddBusinessNetwork(businessNetworkIdentifier, connectionProfile, chaincodeUUID) ==
    /\ businessNetworks' = AddBusinessNetwork(businessNetworks, businessNetworkIdentifier,
                                              connectionProfile, chaincodeUUID)
    /\ UNCHANGED <<chaincodes, identities, containers, certs, pc, frame, session>>

\* EmbeddedConnection.addChaincode called directly, with a container and an
\* engine of the caller's own
DirectAddChaincode(chaincodeUUID) ==
    /\ chaincodes' = AddChaincode(chaincodes, chaincodeUUID, "mockContainer", "mockEngine")
    /\ UNCHANGED <<businessNetworks, identities, containers, certs, pc, frame, session>>

\* EmbeddedConnection.deleteBusinessNetwork called directly
DirectDeleteBusinessNetwork(businessNetworkIdentifier, connectionProfile) ==
    LET after == DeleteBusinessNetwork(businessNetworkIdentifier, connectionProfile)
    IN  /\ businessNetworks' = after[1]
        /\ chaincodes' = after[2]
        /\ UNCHANGED <<identities, containers, certs, pc, frame, session>>

\* ------------------------------------------------------------------ specifications
\* login, and the return of any call, by the callers in P.
NextLogin(P) ==
    \/ \E p \in P : Return(p)
    \/ \E p \in P, c \in Connections, n \in Names, s \in Secrets :
          CallLogin(p, c[2], c[1], n, s)
    \/ \E p \in P : LoginBind(p)

\* The creation of the admin by the first getIdentity('admin'), by the callers in P.
NextAdmin(P) ==
    \/ \E p \in P : AdminAddName(p)
    \/ \E p \in P : AdminAddIdentifier(p)

\* The identity methods of a connection, by the callers in P.
NextIdentity(P) ==
    \/ \E p \in P, n \in IdentityKeys : CallGetIdentity(p, n)
    \/ \E p \in P, n \in IdentityKeys, s \in Secrets \cup {AdminSecret} :
          CallTestIdentity(p, n, s)
    \/ \E p \in P, n \in NewNames, o \in IdentityOptions : CallCreateIdentity(p, n, o)
    \/ \E p \in P : CreateGet(p)
    \/ \E p \in P : CreateAddName(p)
    \/ \E p \in P : CreateAddIdentifier(p)

\* start, undeploy and reset by the callers in P.
NextLifecycle(P) ==
    \/ \E p \in P, t \in Targets, tx \in StartTransactions : Start(p, t[2], t[1], tx)
    \/ \E p \in P, o \in InitOutcomes : StartReturn(p, o)
    \/ \E p \in P, t \in Targets : Undeploy(p, t[2], t[1])
    \/ \E p \in P : Reset(p)

\* install and the dispatch methods by the callers in P.
NextDispatch(P) ==
    \/ \E p \in P, t \in Targets : Install(p, t[1])
    \/ \E p \in P, fn \in ChaincodeFns : QueryChainCode(p, fn)
    \/ \E p \in P, fn \in ChaincodeFns : InvokeChainCode(p, fn)
    \/ \E p \in P, o \in DispatchOutcomes : DispatchReturn(p, o)

\* The static registry methods called directly.
NextDirect ==
    \/ \E t \in Targets, u \in HarnessUUIDs : DirectAddBusinessNetwork(t[1], t[2], u)
    \/ \E u \in HarnessUUIDs : DirectAddChaincode(u)
    \/ \E t \in Targets : DirectDeleteBusinessNetwork(t[1], t[2])

\* Logins and the business network methods of connections whose identity
\* store holds the admin, in any interleaving of the callers.
Next == NextLogin(Procs) \/ NextLifecycle(Procs) \/ NextDispatch(Procs)
Spec == InitBootstrapped /\ [][Next]_vars

\* Logins and the identity methods on a fresh identity store.
NextOnStore == NextLogin(Procs) \/ NextAdmin(Procs) \/ NextIdentity(Procs)
SpecIdentity == Init /\ [][NextOnStore]_vars

\* One caller of the connection methods, and the static registry methods
\* called directly between its steps.
NextWithDirect == NextLogin({1}) \/ NextLifecycle({1}) \/ NextDispatch({1}) \/ NextDirect
SpecDirect == InitBootstrapped /\ [][NextWithDirect]_vars

\* One caller that makes its calls one after the other: login, the identity
\* methods, start, undeploy and reset, on a fresh identity store.
NextSequence ==
    NextLogin({1}) \/ NextAdmin({1}) \/ NextIdentity({1}) \/ NextLifecycle({1})
SpecSequence == Init /\ [][NextSequence]_vars

\* ------------------------------------------------------------------ properties
DispatchOps == {"queryChainCode", "invokeChainCode"}

\* p's start has resolved.
Started(p) == pc[p] = "done" /\ frame[p].op = "start" /\ frame[p].result = Ok

\* p's queryChainCode or invokeChainCode has called an engine.
Dispatched(p) ==
    /\ frame[p].op \in DispatchOps
    /\ pc[p] \in {"engine_call", "done"}
    /\ frame[p].engine # Undefined

\* A chaincode instance that no binding refers to.
Orphaned(chaincodeUUID) ==
    \A key \in DOMAIN businessNetworks : businessNetworks[key] # chaincodeUUID

\* C1: once a start has resolved, every queryChainCode and invokeChainCode made
\* through a security context bound to the chaincode UUID that start registered
\* calls the engine that start created, and the instance registered under
\* that UUID, while there is one, holds that engine.
C1_DispatchReachesStartedEngine ==
    \A p \in Procs : Started(p) =>
        /\ GetChaincode(frame[p].uuid) # NoChaincode =>
              GetChaincode(frame[p].uuid).engine = frame[p].engine
        /\ \A q \in Procs : Dispatched(q) /\ frame[q].uuid = frame[p].uuid =>
              frame[q].engine = frame[p].engine

\* C1 witness: a start has resolved and another caller, logged in to the
\* network it started, has had its call answered by that start's engine.
C1_Witness ==
    \E p, q \in Procs :
        /\ Started(p)
        /\ pc[q] = "done" /\ Dispatched(q) /\ frame[q].result = Ok
        /\ session[q].chaincodeID = frame[p].uuid
        /\ frame[q].uuid = frame[p].uuid
        /\ frame[q].engine = frame[p].engine
        /\ \E key \in DOMAIN businessNetworks : businessNetworks[key] = frame[p].uuid

\* C2 (as claimed): start on a (network, profile) pair that has a binding is
\* rejected with NetworkAlreadyExists and leaves both registry tables as they were.
C2_StartOnBoundNetworkRejected ==
    [][\A p \in Procs, t \in Targets, tx \in StartTransactions :
          Start(p, t[2], t[1], tx) /\ NetworkKey(t[1], t[2]) \in DOMAIN businessNetworks =>
              /\ UNCHANGED registry
              /\ pc'[p] = "done"
              /\ frame'[p].result = NetworkAlreadyExists(t[1])]_vars

\* C3 (as claimed): after any interleaving of start, undeploy and reset, every
\* chaincode instance in the instance table is the target of a binding.
C3_NoOrphanedInstance ==
    \A chaincodeUUID \in DOMAIN chaincodes : ~Orphaned(chaincodeUUID)

C5_LoginWithoutNetworkUnbound ==
    [][\A p \in Procs :
          LoginBind(p) /\ frame[p].network = NoNetwork =>
              /\ frame[p].identity.name \in DOMAIN identities
              /\ frame[p].identity = identities[frame[p].identity.name]
              /\ frame'[p].result = Ok
              /\ session'[p] = [open |-> TRUE, identity |-> frame[p].identity,
                                chaincodeID |-> Null]]_vars

\* C5 witness: a login without a network has resolved unbound while the
\* registry holds a binding and an instance.
C5_Witness ==
    \E p \in Procs :
        /\ pc[p] = "done" /\ frame[p].op = "login" /\ frame[p].result = Ok
        /\ session[p].open /\ session[p].chaincodeID = Null
        /\ session[p].identity = identities[session[p].identity.name]
        /\ DOMAIN businessNetworks # {}
        /\ DOMAIN chaincodes # {}

\* C6 (as claimed): queryChainCode and invokeChainCode are rejected with
\* ChaincodeNotFound, and call no engine, when the security context has no
\* chaincode UUID or one that is not in the instance table.
C6_DispatchRejectsUnknownChaincode ==
    [][\A p \in Procs, fn \in ChaincodeFns :
          /\ QueryChainCode(p, fn) \/ InvokeChainCode(p, fn)
          /\ session[p].chaincodeID \notin DOMAIN chaincodes
          => /\ pc'[p] = "done"
             /\ frame'[p].engine = Undefined
             /\ frame'[p].result = ChaincodeNotFound]_vars

\* C7: undeploy of a (network, profile) pair that has a binding removes that
\* entry of the binding table and the instance it pointed to, and leaves every
\* other entry of both tables as it was.
C7_UndeployRemovesBindingAndInstance ==
    [][\A p \in Procs, t \in Targets :
          Undeploy(p, t[2], t[1]) /\ NetworkKey(t[1], t[2]) \in DOMAIN businessNetworks =>
              LET key == NetworkKey(t[1], t[2])
                  chaincodeUUID == businessNetworks[key]
              IN  /\ DOMAIN businessNetworks' = DOMAIN businessNetworks \ {key}
                  /\ \A k \in DOMAIN businessNetworks' : businessNetworks'[k] = businessNetworks[k]
                  /\ DOMAIN chaincodes' = DOMAIN chaincodes \ {chaincodeUUID}
                  /\ \A u \in DOMAIN chaincodes' : chaincodes'[u] = chaincodes[u]
                  /\ frame'[p].result = Ok]_vars

\* C7 witness: an undeploy has removed a binding, and another binding and its
\* instance are still registered.
C7_Witness ==
    \E p \in Procs :
        /\ pc[p] = "done" /\ frame[p].op = "undeploy" /\ frame[p].uuid # Undefined
        /\ frame[p].uuid \notin DOMAIN chaincodes
        /\ \E key \in DOMAIN businessNetworks : businessNetworks[key] \in DOMAIN chaincodes

\* C8: undeploy of a (network, profile) pair that has no binding resolves and
\* leaves both registry tables as they were.
C8_UndeployUnboundIsNoOp ==
    [][\A p \in Procs, t \in Targets :
          Undeploy(p, t[2], t[1]) /\ NetworkKey(t[1], t[2]) \notin DOMAIN businessNetworks =>
              /\ UNCHANGED registry
              /\ pc'[p] = "done"
              /\ frame'[p].result = Ok]_vars

\* C8 witness: an undeploy found no binding while an instance that was
\* registered without a binding is in the instance table.
C8_Witness ==
    \E p \in Procs :
        /\ pc[p] = "done" /\ frame[p].op = "undeploy" /\ frame[p].uuid = Undefined
        /\ frame[p].result = Ok
        /\ \E u \in HarnessUUIDs : u \in DOMAIN chaincodes /\ Orphaned(u)

C10_TestIdentityComparesSecret ==
    [][\A p \in Procs, n \in IdentityKeys \ {AdminName}, s \in Secrets \cup {AdminSecret} :
          /\ CallTestIdentity(p, n, s)
          /\ n \in DOMAIN identities
          /\ ~identities[n].imported
          => /\ pc'[p] = "done"
             /\ IF s = identities[n].secret
                THEN frame'[p].result = Ok /\ frame'[p].identity = identities[n]
                ELSE frame'[p].result = AuthenticationFailed /\ frame'[p].identity = NoIdentity]_vars

\* C10 witness: testIdentity has resolved for one caller and was rejected for
\* another, both for the identity created under the name 'bob'.
C10_Witness ==
    \E p, q \in Procs :
        /\ pc[p] = "done" /\ frame[p].op = "testIdentity" /\ frame[p].result = Ok
        /\ frame[p].identity.name = "bob" /\ ~frame[p].identity.imported
        /\ pc[q] = "done" /\ frame[q].op = "testIdentity"
        /\ frame[q].result = AuthenticationFailed

\* ------------------------------------------------------------------ properties of the identity methods
\* The secrets testIdentity is called with.
PresentedSecrets == Secrets \cup {AdminSecret}

\* p's call is inside _createAdminIdentity.
CreatingAdmin(p) == pc[p] \in {"admin_add", "admin_add_identifier"}

\* C11 (as claimed): testIdentity('admin', s) resolves for every secret s, in
\* every state of the identity store, also one with no admin identity yet.
C11_TestIdentityAdminSucceeds ==
    [][\A p \in Procs :
          /\ \A s \in PresentedSecrets :
                CallTestIdentity(p, AdminName, s) /\ pc'[p] = "done" => frame'[p].result = Ok
          /\ frame[p].op = "testIdentity" /\ CreatingAdmin(p) /\ pc'[p] = "done" =>
                frame'[p].result = Ok]_vars

\* C12: when the identity stored under a name is imported, testIdentity of
\* that name resolves with the stored identity whatever the secret is.
C12_TestIdentityImportedSkipsSecret ==
    [][\A p \in Procs, n \in IdentityKeys, s \in PresentedSecrets :
          /\ CallTestIdentity(p, n, s)
          /\ n \in DOMAIN identities
          /\ identities[n].imported
          => /\ pc'[p] = "done"
             /\ frame'[p].result = Ok
             /\ frame'[p].identity = identities[n]]_vars

\* C12 witness: testIdentity has resolved with the imported identity, for a
\* secret that is not the stored one.
C12_Witness ==
    \E p \in Procs :
        /\ pc[p] = "done" /\ frame[p].op = "testIdentity" /\ frame[p].result = Ok
        /\ frame[p].identity = ImportedIdentity
        /\ ImportedIdentity.secret \notin PresentedSecrets

\* C13: getIdentity('admin') is idempotent. On a store without an admin record
\* the call runs _createAdminIdentity, which stores one identity under 'admin'
\* and under its identifier and returns it; the record under 'admin' never
\* changes afterwards; and every call made once that record is stored returns
\* its content, adds nothing and generates no certificate.
C13_GetIdentityAdminIdempotent ==
    [][\A p \in Procs :
          /\ CallGetIdentity(p, AdminName) /\ AdminName \notin DOMAIN identities =>
                /\ pc'[p] = "admin_add"
                /\ frame'[p].identity = AdminIdentity(certs')
          /\ AdminAddName(p) /\ AdminName \notin DOMAIN identities =>
                identities' = Put(identities, AdminName, frame[p].identity)
          /\ AdminAddIdentifier(p) =>
                /\ identities' = Put(identities, frame[p].identity.identifier, frame[p].identity)
                /\ identities'[AdminName] = identities'[frame[p].identity.identifier]
                /\ frame[p].op = "getIdentity" =>
                      /\ pc'[p] = "done"
                      /\ frame'[p].result = Ok
                      /\ frame'[p].identity = identities'[AdminName]
          /\ AdminName \in DOMAIN identities =>
                /\ AdminName \in DOMAIN identities'
                /\ identities'[AdminName] = identities[AdminName]
          /\ CallGetIdentity(p, AdminName) /\ AdminName \in DOMAIN identities =>
                /\ pc'[p] = "done"
                /\ frame'[p].result = Ok
                /\ frame'[p].identity = identities[AdminName]
                /\ UNCHANGED <<identities, certs>>]_vars

\* C13 witness: on a store that had no admin, two calls of getIdentity('admin')
\* have returned the same identity, which is stored under both keys, and one
\* certificate was generated.
C13_Witness ==
    \E p, q \in Procs :
        /\ p # q
        /\ pc[p] = "done" /\ frame[p].op = "getIdentity" /\ frame[p].result = Ok
        /\ pc[q] = "done" /\ frame[q].op = "getIdentity" /\ frame[q].result = Ok
        /\ certs = 1
        /\ frame[p].identity = AdminIdentity(1)
        /\ frame[q].identity = AdminIdentity(1)
        /\ identities[AdminName] = AdminIdentity(1)
        /\ identities[CertIdentifier(1)] = AdminIdentity(1)

\* C14: for a name other than 'admin' that has no record in the identity
\* store, getIdentity is rejected with the lookup error of the store, and the
\* store is left as it was.
C14_GetIdentityMissRejected ==
    [][\A p \in Procs, n \in IdentityKeys \ {AdminName} :
          CallGetIdentity(p, n) /\ n \notin DOMAIN identities =>
              /\ pc'[p] = "done"
              /\ frame'[p].result = IdentityNotFound
              /\ frame'[p].identity = NoIdentity
              /\ UNCHANGED <<identities, certs>>]_vars

\* C14 witness: getIdentity was rejected with the lookup error while the
\* store holds the admin and no record of the name 'bob'.
C14_Witness ==
    \E p \in Procs :
        /\ pc[p] = "done" /\ frame[p].op = "getIdentity"
        /\ frame[p].result = IdentityNotFound
        /\ AdminName \in DOMAIN identities
        /\ "bob" \notin DOMAIN identities

\* The keys of the store whose record carries the name n.
KeysOfName(n) == {k \in DOMAIN identities : identities[k].name = n}

\* p's createIdentity has resolved.
Created(p) == pc[p] = "done" /\ frame[p].op = "createIdentity" /\ frame[p].result = Ok

\* C15: a createIdentity by an issuer for a name that an earlier createIdentity
\* has stored adds nothing, generates no certificate and no secret, and
\* resolves with the name and the secret of the stored record, which never
\* change; so all calls that resolve for a name return the same pair, and
\* once no call is between its two adds the store holds that name's record
\* under the name and under its identifier and under no other key.
C15_CreateIdentityTwiceOneRecord ==
    [][/\ \A p \in Procs, n \in NewNames, o \in IdentityOptions :
             /\ CallCreateIdentity(p, n, o)
             /\ "issuer" \in session[p].identity.options
             /\ n \in DOMAIN identities
             => pc'[p] = "create_get" /\ UNCHANGED <<identities, certs>>
       /\ \A p \in Procs :
             CreateGet(p) =>
                 /\ UNCHANGED <<identities, certs>>
                 /\ frame'[p].result = Ok
                 /\ frame'[p].userID = frame[p].name
                 /\ frame'[p].userSecret = identities[frame[p].name].secret
       /\ \A k \in DOMAIN identities :
             k \in DOMAIN identities' /\ identities'[k] = identities[k]
       /\ \A p, q \in Procs :
             Created(p)' /\ Created(q)' =>
                 /\ frame'[p].userID = frame'[q].userID
                 /\ frame'[p].userSecret = frame'[q].userSecret
       /\ \A p \in Procs, n \in NewNames :
             /\ Created(p)' /\ frame'[p].userID = n
             /\ \A q \in Procs : pc'[q] # "create_add_identifier"
             =>
                 /\ n \in DOMAIN identities'
                 /\ identities'[n].secret = frame'[p].userSecret
                 /\ KeysOfName(n)' = {n, identities'[n].identifier}
                 /\ identities'[identities'[n].identifier] = identities'[n]]_vars

\* C15 witness: two createIdentity calls for 'bob' have resolved with the same
\* pair, one certificate was generated for 'bob', and the store holds the
\* record under 'bob' and under its identifier.
C15_Witness ==
    \E p, q \in Procs :
        /\ p # q
        /\ Created(p) /\ Created(q)
        /\ frame[p].userID = "bob" /\ frame[q].userID = "bob"
        /\ frame[p].userSecret = NewSecret(2) /\ frame[q].userSecret = NewSecret(2)
        /\ certs = 2
        /\ KeysOfName("bob") = {"bob", CertIdentifier(2)}

\* C16: createIdentity through a security context whose identity does not
\* have the issuer option is rejected at once with PermissionDenied, whose
\* message names that identity and the requested name, and leaves the identity
\* store as it was, also when the requested name is in the store.
C16_CreateIdentityNeedsIssuer ==
    [][\A p \in Procs, n \in NewNames, o \in IdentityOptions :
          CallCreateIdentity(p, n, o) /\ "issuer" \notin session[p].identity.options =>
              /\ pc'[p] = "done"
              /\ frame'[p].result = PermissionDenied(session[p].identity.name, n)
              /\ frame'[p].userID = "" /\ frame'[p].userSecret = ""
              /\ UNCHANGED <<identities, certs>>]_vars

\* C16 witness: the imported identity 'carol', which is no issuer, was refused
\* the creation of 'bob' while a record of 'bob' is in the store.
C16_Witness ==
    \E p \in Procs :
        /\ pc[p] = "done" /\ frame[p].op = "createIdentity"
        /\ frame[p].result = PermissionDenied("carol", "bob")
        /\ "bob" \in DOMAIN identities

\* C17: a createIdentity that creates the identity builds it with the given
\* name, a new secret, imported = false and the given options ({} when none
\* are given), stores it under the name and under its identifier, and resolves
\* with that name and that secret; from then on testIdentity of the name
\* resolves for the returned secret and is rejected for every other secret.
C17_CreatedIdentityAuthenticates ==
    [][/\ \A p \in Procs, n \in NewNames, o \in IdentityOptions :
             /\ CallCreateIdentity(p, n, o)
             /\ "issuer" \in session[p].identity.options
             /\ n \notin DOMAIN identities
             => /\ pc'[p] = "create_add"
                /\ frame'[p].identity.name = n
                /\ ~frame'[p].identity.imported
                /\ frame'[p].identity.options = (IF o = NoOptions THEN {} ELSE o)
                /\ frame'[p].identity.secret = NewSecret(certs')
       /\ \A p \in Procs :
             CreateAddName(p) /\ frame[p].name \notin DOMAIN identities =>
                 identities' = Put(identities, frame[p].name, frame[p].identity)
       /\ \A p \in Procs :
             CreateAddIdentifier(p) =>
                 /\ identities' = Put(identities, frame[p].identity.identifier, frame[p].identity)
                 /\ identities'[frame[p].name] = frame[p].identity
                 /\ pc'[p] = "done"
                 /\ frame'[p].result = Ok
                 /\ frame'[p].userID = frame[p].name
                 /\ frame'[p].userSecret = frame[p].identity.secret
       /\ \A p, q \in Procs, s \in PresentedSecrets :
             Created(q) /\ CallTestIdentity(p, frame[q].userID, s) =>
                 /\ pc'[p] = "done"
                 /\ frame'[p].result =
                       IF s = frame[q].userSecret THEN Ok ELSE AuthenticationFailed]_vars

\* C17 witness: createIdentity has resolved for 'bob' with the issuer option,
\* and a testIdentity with the returned secret has resolved with the stored
\* identity.
C17_Witness ==
    \E p, q \in Procs :
        /\ Created(q) /\ frame[q].userID = "bob"
        /\ pc[p] = "done" /\ frame[p].op = "testIdentity" /\ frame[p].result = Ok
        /\ frame[p].identity = identities["bob"]
        /\ frame[p].identity.secret = frame[q].userSecret
        /\ frame[p].identity.options = {"issuer"}
        /\ ~frame[p].identity.imported

\* p's call has added an identity under its name and not yet under its identifier.
BetweenAdds(p) == pc[p] \in {"admin_add_identifier", "create_add_identifier"}

\* C18: whenever no call stands between its two adds, and so after any
\* sequence of completed calls, resolved or rejected, every record of the
\* identity store is stored under exactly two keys, its name and its
\* identifier, and both keys hold that same record.
C18_IdentityStoredUnderTwoKeys ==
    (\A p \in Procs : ~BetweenAdds(p)) =>
        \A k \in DOMAIN identities :
            LET r == identities[k]
            IN  /\ k \in {r.name, r.identifier}
                /\ r.name # r.identifier
                /\ r.name \in DOMAIN identities /\ identities[r.name] = r
                /\ r.identifier \in DOMAIN identities /\ identities[r.identifier] = r

\* C18 witness: two createIdentity calls for 'bob' have completed, one resolved
\* and one rejected by the store, and the store holds the admin, the imported
\* identity and 'bob', each under two keys.
C18_Witness ==
    \E p, q \in Procs :
        /\ Created(p) /\ frame[p].userID = "bob"
        /\ pc[q] = "done" /\ frame[q].op = "createIdentity"
        /\ frame[q].result = AlreadyExistsInCollection
        /\ Cardinality(DOMAIN identities) = 6
        /\ identities["bob"] = identities[identities["bob"].identifier]

\* C19 (as claimed): when engine.init is rejected during start with a message
\* that says the object already exists, start is rejected with
\* NetworkAlreadyExists, which names the network, and not with the error of
\* the engine.
C19_StartTranslatesAlreadyExists ==
    [][\A p \in Procs :
          StartReturn(p, EngineAlreadyExists) =>
              /\ pc'[p] = "done"
              /\ frame'[p].result = NetworkAlreadyExists(frame[p].network)]_vars

\* The methods that call an engine entry point.
EngineOps == {"start"} \cup DispatchOps

\* p's call is waiting for the answer of an engine entry point.
InEngine(p) == pc[p] \in {"start_init", "engine_call"}

\* C20: for start, queryChainCode and invokeChainCode, an error of the engine
\* that does not say the object already exists is the error the call is
\* rejected with; a call that reached an engine completes only at the answer
\* of the engine; and it has called the engine entry point exactly once.
C20_EngineErrorPropagatesOnce ==
    [][\A p \in Procs :
          /\ StartReturn(p, EngineSomeError) \/ DispatchReturn(p, EngineSomeError) =>
                /\ pc'[p] = "done"
                /\ frame'[p].result = EngineSomeError
                /\ frame'[p].calls = 1
          /\ InEngine(p)' => frame'[p].calls = 1
          /\ /\ pc'[p] = "done" /\ pc[p] # "done"
             /\ frame'[p].op \in EngineOps
             /\ frame'[p].result # TypeError
             => /\ InEngine(p)
                /\ frame'[p].op = frame[p].op
                /\ frame'[p].engine = frame[p].engine
                /\ frame'[p].calls = 1]_vars

\* C20 witness: a start and a queryChainCode have both been rejected with the
\* error of the engine, each after one call of the engine.
C20_Witness ==
    \E p, q \in Procs :
        /\ pc[p] = "done" /\ frame[p].op = "start"
        /\ frame[p].result = EngineSomeError /\ frame[p].calls = 1
        /\ pc[q] = "done" /\ frame[q].op = "queryChainCode"
        /\ frame[q].result = EngineSomeError /\ frame[q].calls = 1

\* C21: install resolves in every state and for every network identifier, and
\* leaves the binding table, the instance table and the identity store as
\* they were.
C21_InstallIsNoOp ==
    [][\A p \in Procs :
          /\ pc[p] = "idle" => \A t \in Targets : ENABLED Install(p, t[1])
          /\ \A t \in Targets :
                Install(p, t[1]) =>
                    /\ pc'[p] = "done"
                    /\ frame'[p].result = Ok
                    /\ UNCHANGED <<businessNetworks, chaincodes, identities,
                                   containers, certs, session>>]_vars

\* C21 witness: install has resolved for a caller that never logged in, while
\* the registry holds a binding and its instance.
C21_Witness ==
    \E p \in Procs :
        /\ pc[p] = "done" /\ frame[p].op = "install" /\ frame[p].result = Ok
        /\ ~session[p].open
        /\ \E key \in DOMAIN businessNetworks : businessNetworks[key] \in DOMAIN chaincodes

\* C22 (as claimed): under any interleaving of getIdentity('admin') and
\* login('admin', ...) calls on a store without an admin record, one admin
\* record pair is stored, and every call that ran _createAdminIdentity
\* goes on with, or resolves with, the stored admin identity.
C22_AdminCreatedEffectivelyOnce ==
    [][\A p \in Procs :
          /\ Cardinality(KeysOfName(AdminName)') <= 2
          /\ CreatingAdmin(p) /\ ~CreatingAdmin(p)' /\ frame[p].op \in {"getIdentity", "login"} =>
                /\ AdminName \in DOMAIN identities'
                /\ IF frame[p].op = "login"
                   THEN pc'[p] = "login_bind"
                   ELSE pc'[p] = "done" /\ frame'[p].result = Ok
                /\ frame'[p].identity = identities'[AdminName]]_vars

\* C23: identity records are never changed and never removed: a key of the
\* identity store that holds a record holds that record in every later state,
\* across login, getIdentity, testIdentity, createIdentity, start, undeploy
\* and reset.
C23_IdentityRecordsImmutable ==
    [][\A k \in DOMAIN identities :
          k \in DOMAIN identities' /\ identities'[k] = identities[k]]_vars

\* C23 witness: after a start and a reset of the registry, the store still
\* holds the imported identity, the admin and 'bob', each under two keys.
C23_Witness ==
    /\ pc[1] = "done" /\ frame[1].op = "reset"
    /\ containers > 0
    /\ DOMAIN chaincodes = {}
    /\ Cardinality(DOMAIN identities) = 6
    /\ identities["bob"] = NewIdentity(2, "bob", {})
    /\ identities[AdminName] = AdminIdentity(1)

CreatingName(p, n) == pc[p] = "create_add" /\ frame[p].name = n

\* C25: the check of identities.exists and the add in createIdentity are not
\* atomic. While one call has found a name absent and has not stored it yet,
\* a second call by an issuer for that name can begin, finds the name absent
\* too and generates an identity with another secret; of two such calls the
\* one that adds second is rejected by the store, so the two callers do not
\* both receive the same {userID, userSecret}.
C25_CreateIdentityCheckThenAct ==
    [][\A p, q \in Procs, n \in NewNames :
          /\ /\ p # q /\ CreatingName(p, n) /\ n \notin DOMAIN identities
             /\ pc[q] = "idle" /\ "issuer" \in session[q].identity.options
             /\ certs < MaxCerts
             => /\ \A o \in IdentityOptions : ENABLED CallCreateIdentity(q, n, o)
                /\ \A o \in IdentityOptions :
                      CallCreateIdentity(q, n, o) =>
                          /\ CreatingName(q, n)'
                          /\ frame'[q].identity.secret # frame[p].identity.secret
                          /\ frame'[q].identity.identifier # frame[p].identity.identifier
          /\ p # q /\ CreatingName(p, n) /\ CreatingName(q, n) /\ CreateAddName(p) =>
                IF n \in DOMAIN identities
                THEN /\ pc'[p] = "done"
                     /\ frame'[p].result = AlreadyExistsInCollection
                     /\ frame'[p].userSecret = ""
                     /\ UNCHANGED identities
                ELSE identities' = Put(identities, n, frame[p].identity)]_vars

\* C25 witness: two createIdentity calls for 'bob' each generated a
\* certificate; one has resolved with its secret and the other was rejected
\* by the store.
C25_Witness ==
    \E p, q \in Procs :
        /\ Created(p) /\ frame[p].userID = "bob"
        /\ frame[p].userSecret = identities["bob"].secret
        /\ pc[q] = "done" /\ frame[q].op = "createIdentity"
        /\ frame[q].result = AlreadyExistsInCollection /\ frame[q].userSecret = ""
        /\ certs = 3
        /\ KeysOfName("bob") = {"bob", identities["bob"].identifier}

\* C26: under any interleaving of start, queryChainCode and invokeChainCode
\* calls of different sessions, the context handed to the engine for a call
\* is built at that call, from the engine the call resolved and the identity
\* of the call's own security context, and no step of another call changes it.
C26_ContextCarriesOwnIdentity ==
    [][\A p \in Procs :
          /\ ~InEngine(p) /\ InEngine(p)' =>
                /\ frame'[p].context.identity = session[p].identity
                /\ frame'[p].context.engine = frame'[p].engine
                /\ frame[p].context = NoEngineContext
          /\ InEngine(p) /\ InEngine(p)' => frame'[p].context = frame[p].context
          /\ ~InEngine(p)' => frame'[p].context = NoEngineContext]_vars

\* C26 witness: two sessions with different identities wait for the same
\* engine at the same time, each with a context that carries its own identity.
C26_Witness ==
    \E p, q \in Procs :
        /\ pc[p] = "engine_call" /\ pc[q] = "engine_call"
        /\ frame[p].engine = frame[q].engine
        /\ session[p].identity = AdminIdentity(1)
        /\ session[q].identity = ImportedIdentity
        /\ frame[p].context.identity = AdminIdentity(1)
        /\ frame[q].context.identity = ImportedIdentity

\* C27: in every state reached by start, undeploy and reset calls, in any
\* interleaving, every binding of the binding table names a chaincode UUID
\* that is in the instance table; so a login that resolves a binding returns
\* a security context whose chaincode UUID has an instance with an engine.
C27_NoDanglingBinding ==
    [][/\ \A key \in DOMAIN businessNetworks' :
             businessNetworks'[key] \in DOMAIN chaincodes'
       /\ \A p \in Procs :
             LoginBind(p) /\ frame[p].network \in Networks /\ frame'[p].result = Ok =>
                 /\ session'[p].chaincodeID \in DOMAIN chaincodes
                 /\ GetChaincode(session'[p].chaincodeID).engine # Undefined]_vars

\* C27 witness: a network was started twice, and a login has resolved bound
\* to the second instance while the first instance is still registered
\* without a binding.
C27_Witness ==
    \E p \in Procs :
        /\ pc[p] = "done" /\ frame[p].op = "login" /\ frame[p].result = Ok
        /\ session[p].chaincodeID = ContainerUUID(2)
        /\ DOMAIN chaincodes = {ContainerUUID(1), ContainerUUID(2)}
        /\ Orphaned(ContainerUUID(1))
        /\ \A key \in DOMAIN businessNetworks : businessNetworks[key] = ContainerUUID(2)

\* p's start was rejected.
StartFailed(p) == pc[p] = "done" /\ frame[p].op = "start" /\ frame[p].result # Ok

\* C28: start registers the binding and the instance before engine.init
\* answers, and the answer, also a rejection, changes neither table; while
\* init is pending and after it was rejected, a login that finds the binding
\* of that start resolves bound to the new chaincode UUID, which has its
\* instance.
C28_StartRegistersBeforeInit ==
    [][\A p \in Procs :
          /\ \A t \in Targets, tx \in StartTransactions :
                Start(p, t[2], t[1], tx) =>
                    /\ pc'[p] = "start_init"
                    /\ frame'[p].uuid \notin DOMAIN chaincodes
                    /\ GetBusinessNetwork(t[1], t[2])' = frame'[p].uuid
                    /\ frame'[p].uuid \in DOMAIN chaincodes'
                    /\ chaincodes'[frame'[p].uuid].engine = frame'[p].engine
          /\ \A o \in InitOutcomes :
                StartReturn(p, o) =>
                    /\ UNCHANGED registry
                    /\ frame'[p].result = o
                    /\ frame'[p].uuid = frame[p].uuid
          /\ \A q \in Procs :
                /\ pc[p] = "start_init" \/ StartFailed(p)
                /\ LoginBind(q) /\ frame[q].network \in Networks
                /\ GetBusinessNetwork(frame[q].network, frame[q].profile) = frame[p].uuid
                => /\ frame'[q].result = Ok
                   /\ session'[q].chaincodeID = frame[p].uuid
                   /\ GetChaincode(frame[p].uuid).engine = frame[p].engine]_vars

\* C28 witness: a start was rejected with the error of the engine, and a
\* login has resolved bound to the chaincode UUID that start registered,
\* which still has its binding and its instance.
C28_Witness ==
    \E p, q \in Procs :
        /\ StartFailed(p) /\ frame[p].result = EngineSomeError
        /\ pc[q] = "done" /\ frame[q].op = "login" /\ frame[q].result = Ok
        /\ session[q].chaincodeID = frame[p].uuid
        /\ \E key \in DOMAIN businessNetworks : businessNetworks[key] = frame[p].uuid
        /\ GetChaincode(frame[p].uuid).engine = frame[p].engine

\* The chaincode UUIDs of the containers made so far.
CreatedUUIDs == {ContainerUUID(n) : n \in 1..containers}

\* C29: a chaincode UUID that undeploy has removed from the instance table
\* never comes back: every later start registers a UUID no container had
\* before, also for the same network; and a queryChainCode or invokeChainCode
\* through a security context bound to a UUID that is not in the instance
\* table is rejected without a call of any engine.
C29_UndeployedChaincodeUnreachable ==
    [][/\ \A u \in CreatedUUIDs : u \notin DOMAIN chaincodes => u \notin DOMAIN chaincodes'
       /\ \A p \in Procs, t \in Targets :
             Undeploy(p, t[2], t[1]) /\ NetworkKey(t[1], t[2]) \in DOMAIN businessNetworks =>
                 businessNetworks[NetworkKey(t[1], t[2])] \notin DOMAIN chaincodes'
       /\ \A p \in Procs, t \in Targets, tx \in StartTransactions :
             Start(p, t[2], t[1], tx) =>
                 /\ frame'[p].uuid \notin CreatedUUIDs
                 /\ \A q \in Procs : session[q].chaincodeID # frame'[p].uuid
       /\ \A p \in Procs, fn \in ChaincodeFns :
             /\ QueryChainCode(p, fn) \/ InvokeChainCode(p, fn)
             /\ session[p].chaincodeID \notin DOMAIN chaincodes
             => /\ pc'[p] = "done"
                /\ frame'[p].result # Ok
                /\ frame'[p].engine = Undefined
                /\ frame'[p].calls = 0]_vars

\* C29 witness: a network was started, undeployed and started again, and a
\* queryChainCode through a security context bound to the first chaincode
\* UUID was rejected without a call of an engine while the second instance is
\* registered.
C29_Witness ==
    \E p, q \in Procs :
        /\ session[q].chaincodeID = ContainerUUID(1)
        /\ pc[q] = "done" /\ frame[q].op = "queryChainCode"
        /\ frame[q].result = TypeError /\ frame[q].calls = 0
        /\ Started(p) /\ frame[p].uuid = ContainerUUID(2)
        /\ DOMAIN chaincodes = {ContainerUUID(2)}
        /\ DOMAIN businessNetworks = {NetworkKey("a", "c")}

\* C30 (as claimed): distinct (network, profile) pairs never share a binding:
\* addBusinessNetwork, start, undeploy and deleteBusinessNetwork on one pair
\* leave what getBusinessNetwork returns for every other pair as it was, also
\* for names that hold the character '@'.
C30_PairsNeverShareBinding ==
    [][\A t \in Targets :
          \/ \E u \in HarnessUUIDs : DirectAddBusinessNetwork(t[1], t[2], u)
          \/ DirectDeleteBusinessNetwork(t[1], t[2])
          \/ \E p \in Procs, tx \in StartTransactions : Start(p, t[2], t[1], tx)
          \/ \E p \in Procs : Undeploy(p, t[2], t[1])
          => \A other \in Targets \ {t} :
                GetBusinessNetwork(other[1], other[2])' = GetBusinessNetwork(other[1], other[2])]_vars

\* The identity of the security context p makes its calls with may issue identities.
CallerIsIssuer(p) == "issuer" \in session[p].identity.options

\* The call of p is inside createIdentity, at one of its awaits.
InCreateIdentity(p) == pc[p] \in {"create_get", "create_add", "create_add_identifier"}

\* C31: issuer privilege cannot be escalated. Every record that enters the
\* store is the admin's, built with the issuer option, or is added by a
\* createIdentity call whose calling identity has the issuer option; a call of
\* createIdentity with a calling identity that lacks the option is rejected
\* with the permission error at once, whatever name and options it asks for,
\* and adds nothing; and no createIdentity call of such a caller ever resolves.
C31_IssuerPrivilegeNotEscalated ==
    [][/\ \A k \in DOMAIN identities' \ DOMAIN identities :
             \/ /\ identities'[k].name = AdminName
                /\ "issuer" \in identities'[k].options
                /\ \E p \in Procs : CreatingAdmin(p)
             \/ \E p \in Procs :
                   /\ pc[p] \in {"create_add", "create_add_identifier"}
                   /\ CallerIsIssuer(p)
                   /\ identities'[k] = frame[p].identity
       /\ \A p \in Procs :
             /\ \A n \in NewNames, o \in IdentityOptions :
                   CallCreateIdentity(p, n, o) /\ ~CallerIsIssuer(p)
                   => /\ pc'[p] = "done"
                      /\ frame'[p].result = PermissionDenied(session[p].identity.name, n)
                      /\ identities' = identities
             /\ InCreateIdentity(p) => CallerIsIssuer(p)
             /\ pc[p] # "done" /\ Created(p)' => CallerIsIssuer(p)]_vars

\* C31 witness: bob, created by createIdentity without the issuer option, has
\* logged in and called createIdentity asking for the issuer option, and was
\* rejected with the permission error; the store still holds the record
\* without the option.
C31_Witness ==
    \E p \in Procs :
        /\ pc[p] = "done"
        /\ frame[p].op = "createIdentity"
        /\ frame[p].result = PermissionDenied("bob", "bob")
        /\ session[p].open
        /\ session[p].identity.name = "bob"
        /\ ~session[p].identity.imported
        /\ ~CallerIsIssuer(p)
        /\ "bob" \in DOMAIN identities
        /\ identities["bob"] = session[p].identity

\* The credentials fail testIdentity on the store as it is: the name is not
\* stored (and is not 'admin', which is created on a miss), or the stored
\* identity does not pass the comparison of the secret.
CredentialsFail(enrollmentID, enrollmentSecret) ==
    IF CollectionGetFails(enrollmentID)
    THEN enrollmentID # AdminName
    ELSE ~TestIdentityPasses(identities[enrollmentID], enrollmentID, enrollmentSecret)

\* The error testIdentity rejects failing credentials with, from the identity
\* store and the credentials alone.
CredentialsError(enrollmentID, enrollmentSecret) ==
    IF CollectionGetFails(enrollmentID) THEN IdentityNotFound ELSE AuthenticationFailed

\* The call of p has just ended as a login rejected with result.
LoginRejected(p, result) ==
    pc[p] = "done" /\ frame[p].op = "login" /\ frame[p].result = result

\* C32: login authenticates before it resolves the network. A login whose
\* credentials fail testIdentity is rejected in the step that tests them, with
\* the lookup error or the authentication error that the identity store and
\* the credentials alone determine, never with NetworkNotFound; it opens no
\* security context; the same credentials are rejected with the same error on
\* every other connection, bound or not; and NetworkNotFound is raised only
\* after the identity has passed the test.
C32_LoginAuthenticatesBeforeNetwork ==
    [][\A p \in Procs :
          /\ \A c \in Connections, n \in Names, s \in Secrets :
                CallLogin(p, c[2], c[1], n, s) /\ CredentialsFail(n, s)
                => /\ LoginRejected(p, CredentialsError(n, s))'
                   /\ frame'[p].result # NetworkNotFound
                   /\ session' = session
                   /\ \A other \in Connections :
                         \A r \in {IdentityNotFound, AuthenticationFailed} :
                            frame'[p].result = r
                            => ENABLED (/\ CallLogin(p, other[2], other[1], n, s)
                                        /\ LoginRejected(p, r)')
          /\ pc[p] # "done" /\ LoginRejected(p, NetworkNotFound)'
             => /\ pc[p] = "login_bind"
                /\ frame[p].identity \in {identities[k] : k \in DOMAIN identities}
                /\ ~Truthy(GetBusinessNetwork(frame[p].network, frame[p].profile))]_vars

\* C32 witness: a login with the wrong secret of an identity that createIdentity
\* made has been rejected with the authentication error while every (network,
\* profile) pair of the connections is bound to a registered instance.
C32_Witness ==
    \E p \in Procs :
        /\ LoginRejected(p, AuthenticationFailed)
        /\ \A t \in Targets :
              /\ Truthy(GetBusinessNetwork(t[1], t[2]))
              /\ GetBusinessNetwork(t[1], t[2]) \in DOMAIN chaincodes

====
